---- MODULE Spec2Model ----
(***************************************************************************)
(* Breakout (amethyst): the three simulation systems (PaddleSystem,        *)
(* BallSystem, CollisionSystem) and the state stack StartState /           *)
(* PlayState / PausedState of src/main.rs.                                 *)
(*                                                                         *)
(* Numbers.  The program computes in f32.  The model keeps every quantity  *)
(* exact in integers: a length or position p is held as p * Scale, a time  *)
(* t (seconds) as t * TimeScale.  Scale = 52 makes the halves of           *)
(* VIRTUAL_HEIGHT / 2, the VIRTUAL_WIDTH / 5.2 of the brick grid and the   *)
(* distance covered in one time unit integral.  Velocities stay in         *)
(* units/second as in the source (+70 / -70).                              *)
(***************************************************************************)
EXTENDS Integers, Sequences, FiniteSets, TLC

VARIABLES
  stack,               \* amethyst state stack, bottom first: "Start","Play","Paused"
  running,             \* the application's frame loop is alive (FALSE after Trans::Quit)
  panicked,            \* "none", or the message of the expect() that aborted the process
  text_selected,       \* StartState.text_selected
  progress_counter,    \* StartState.progress_counter is Some
  assets,              \* per AssetType: has its sprite sheet reached the AssetStorage
  ui_created,          \* the entities of ui/text.ron exist (UiFinder finds them)
  start_texts,         \* StartState's handles that are Some: subset of UiTexts
  play_title_ui_text,  \* PlayState.title_ui_text is Some
  hidden,              \* UI texts carrying the Hidden component
  title_label,         \* UiText.text of the title
  debounce_timer,      \* PlayState.debounce_timer: None or Some(remaining time)
  backgrounds,         \* number of background entities in the world
  paddles,             \* Paddle entities alive: entity id -> [x, y, width, height, player]
  balls,               \* Ball entities: sequence of [x, y, velocity_x, velocity_y, radius]
  sounds,              \* sound requests of the latest handler that ran the systems or
                       \* requested a sound: SoundType -> count
  ticks                \* number of PlayState updates so far (bounds the exploration)

vars == <<stack, running, panicked, text_selected, progress_counter, assets,
          ui_created, start_texts, play_title_ui_text, hidden, title_label,
          debounce_timer, backgrounds, paddles, balls, sounds, ticks>>

-----------------------------------------------------------------------------
(* Units *)

\* positions are held in 1/52 of a world unit
Scale == 4 * 13
\* times are held in 1/8 of a second
TimeScale == 2 * 4

-----------------------------------------------------------------------------
(* Bounds of the exploration *)

\* PlayState updates explored when Play was entered with the loading finished
\* and the UI texts found
MaxTicks == 6
\* PlayState updates explored when Play was entered earlier than that
MaxEarlyTicks == 2

\* frame delta times offered to an update, in time units (0.25 s and 1.625 s)
DeltaTimes == {2, 13}
\* an Option<T> is <<>> (None) or <<v>> (Some(v))
None == << >>
Some(v) == <<v>>
\* readings of the "horizontal" axis, in halves: -1.0, 0.0, 1.0, or no axis
AxisScale == 1 + 1
AxisReadings == {Some(h) : h \in {0 - 2, 0, 2}} \cup {None}
\* events delivered to handle_event: Close and Escape are window events, the
\* others are InputEvent::KeyPressed of that key (Other: any further key)
Events == {"Close", "Escape", "Up", "Down", "Return", "Space", "Other"}

-----------------------------------------------------------------------------
(* Constants of the program *)

VIRTUAL_WIDTH == 432
VIRTUAL_HEIGHT == 243
BALL_VELOCITY == 70
PADDLE_SPEED == 200
\* Some(0.25) of on_resume, in time units
DEBOUNCE_TIME == TimeScale \div 4

AssetTypes == {"Background", "PaddleSmall", "PaddleMedium", "Ball"}
SoundTypes == {"PaddleHit", "Confirm", "Pause", "WallHit", "BrickHit2"}
UiTexts == {"title", "start", "highscore"}

\* width and height of the sprite an AssetType names, as the sprite sheets
\* textures/background.ron and textures/breakout.ron give them
SpriteSheets ==
  { [Background   |-> [width |-> 434, height |-> 245],
     PaddleSmall  |-> [width |-> 32, height |-> 16],
     PaddleMedium |-> [width |-> 64, height |-> 16],
     Ball         |-> [width |-> 8, height |-> 8]] }

\* entity ids: the Player paddle, and the brick of row x (0..1), column y (0..8)
PlayerId == 0
\* a grid of three rows
BrickRowsThree == 0 .. 2
BrickRows == 0 .. 1
BrickCols == 0 .. 8
BrickId(x, y) == 1 + 9 * x + y
BrickIds == {BrickId(x, y) : x \in BrickRows, y \in BrickCols}
BrickRow(e) == (e - 1) \div 9
BrickCol(e) == (e - 1) % 9

NoSounds == [s \in SoundTypes |-> 0]
play_sound(snd, sound_type) == [snd EXCEPT ![sound_type] = @ + 1]

unwrap_or(opt, default) == IF opt = None THEN default ELSE opt[1]
fmin(a, b) == IF a <= b THEN a ELSE b
fmax(a, b) == IF a >= b THEN a ELSE b

-----------------------------------------------------------------------------
(* Systems *)

point_in_rect(x, y, left, bottom, right, top) ==
  x >= left /\ x <= right /\ y >= bottom /\ y <= top

\* PaddleMove with the upper clamp (.min) left out
PaddleMoveNoMin(paddle, axis, dt) ==
  LET horizontal == unwrap_or(axis, 0) IN
  IF horizontal # 0
  THEN LET dx == (dt * PADDLE_SPEED * horizontal * Scale) \div (TimeScale * AxisScale)
       IN fmax(paddle.x + dx, paddle.width \div 2)
  ELSE paddle.x

\* PaddleSystem::run on one Player paddle: the new translation x
PaddleMove(paddle, axis, dt) ==
  LET horizontal == unwrap_or(axis, 0) IN
  IF horizontal # 0
  THEN LET dx == (dt * PADDLE_SPEED * horizontal * Scale) \div (TimeScale * AxisScale)
           paddle_x == paddle.x
       IN fmax(fmin(paddle_x + dx, VIRTUAL_WIDTH * Scale - paddle.width \div 2),
               paddle.width \div 2)
  ELSE paddle.x

\* PaddleSystem::run joining over (Transform, Paddle) without the Player tag
PaddleSystemAll(pads, axis, dt) ==
  [e \in DOMAIN pads |-> [pads[e] EXCEPT !.x = PaddleMove(pads[e], axis, dt)]]

\* PaddleSystem::run: the join over (Transform, Paddle, Player)
PaddleSystem(pads, axis, dt) ==
  [e \in DOMAIN pads |->
     IF pads[e].player
     THEN [pads[e] EXCEPT !.x = PaddleMove(pads[e], axis, dt)]
     ELSE pads[e]]

\* BallSystem::run on one ball
BallMove(ball, dt) ==
  [ball EXCEPT !.x = @ + (ball.velocity_x * dt * Scale) \div TimeScale,
               !.y = @ + (ball.velocity_y * dt * Scale) \div TimeScale]

BallSystem(bs, dt) == [i \in DOMAIN bs |-> BallMove(bs[i], dt)]

\* WallY with a bounce that loses speed
WallYDamped(c) ==
  LET ball == c.ball IN
  IF (ball.y <= ball.radius /\ ball.velocity_y < 0)
     \/ (ball.y >= VIRTUAL_HEIGHT * Scale - ball.radius /\ ball.velocity_y > 0)
  THEN [c EXCEPT !.sounds = play_sound(@, "WallHit"),
                 !.ball.velocity_y = 0 - (ball.velocity_y \div 2)]
  ELSE c

\* CollisionSystem::run, the two wall rules; c is [ball, killed, sounds, panicked]
WallY(c) ==
  LET ball == c.ball IN
  IF (ball.y <= ball.radius /\ ball.velocity_y < 0)
     \/ (ball.y >= VIRTUAL_HEIGHT * Scale - ball.radius /\ ball.velocity_y > 0)
  THEN [c EXCEPT !.sounds = play_sound(@, "WallHit"),
                 !.ball.velocity_y = 0 - ball.velocity_y]
  ELSE c

\* WallX that turns the ball round without requesting the sound
WallXSilent(c) ==
  LET ball == c.ball IN
  IF (ball.x <= ball.radius /\ ball.velocity_x < 0)
     \/ (ball.x >= VIRTUAL_WIDTH * Scale - ball.radius /\ ball.velocity_x > 0)
  THEN [c EXCEPT !.ball.velocity_x = 0 - ball.velocity_x]
  ELSE c

WallX(c) ==
  LET ball == c.ball IN
  IF (ball.x <= ball.radius /\ ball.velocity_x < 0)
     \/ (ball.x >= VIRTUAL_WIDTH * Scale - ball.radius /\ ball.velocity_x > 0)
  THEN [c EXCEPT !.sounds = play_sound(@, "WallHit"),
                 !.ball.velocity_x = 0 - ball.velocity_x]
  ELSE c

\* Overlaps that looks at x only: the box reaches over the whole height
OverlapsColumn(ball, paddle) ==
  LET paddle_x == paddle.x - paddle.width \div 2
  IN point_in_rect(ball.x, ball.y,
                   paddle_x - ball.radius,
                   ball.y,
                   paddle_x + paddle.width + ball.radius,
                   ball.y)

\* the ball's centre is inside the paddle's box widened by the ball's radius
Overlaps(ball, paddle) ==
  LET paddle_x == paddle.x - paddle.width \div 2
      paddle_y == paddle.y - paddle.height \div 2
  IN point_in_rect(ball.x, ball.y,
                   paddle_x - ball.radius,
                   paddle_y - ball.radius,
                   paddle_x + paddle.width + ball.radius,
                   paddle_y + paddle.height + ball.radius)

\* Entities::delete: marks e for removal at the next World::maintain;
\* Err(WrongGeneration) when e is not alive
EntitiesDelete(c, alive, e) ==
  IF e \in alive
  THEN [c EXCEPT !.killed = @ \cup {e}]
  ELSE [c EXCEPT !.panicked = "Couldn't delete paddle while colliding with ball!"]

\* HitPaddle without the Player test: every overlapped paddle is deleted
HitPaddleDeleteAny(c, pads, e) ==
  IF c.panicked # "none" \/ ~Overlaps(c.ball, pads[e])
  THEN c
  ELSE LET d == EntitiesDelete(c, DOMAIN pads, e) IN
       IF d.panicked # "none"
       THEN d
       ELSE [d EXCEPT !.sounds = play_sound(@, "BrickHit2"),
                      !.ball.velocity_y = 0 - c.ball.velocity_y]

\* HitPaddle negating velocity_y for the first brick of a pass only
HitPaddleFlipOnce(c, pads, e) ==
  IF c.panicked # "none" \/ ~Overlaps(c.ball, pads[e])
  THEN c
  ELSE IF pads[e].player
       THEN IF c.ball.velocity_y < 0
            THEN [c EXCEPT !.sounds = play_sound(@, "PaddleHit"),
                           !.ball.velocity_y = 0 - c.ball.velocity_y]
            ELSE c
       ELSE LET d == EntitiesDelete(c, DOMAIN pads, e) IN
            IF d.panicked # "none"
            THEN d
            ELSE [d EXCEPT !.sounds = play_sound(@, "BrickHit2"),
                           !.ball.velocity_y =
                              IF c.sounds["BrickHit2"] = 0
                              THEN 0 - c.ball.velocity_y ELSE c.ball.velocity_y]

\* HitPaddle with the Player branch negating velocity_y whatever its sign
HitPaddleSticky(c, pads, e) ==
  IF c.panicked # "none" \/ ~Overlaps(c.ball, pads[e])
  THEN c
  ELSE IF pads[e].player
       THEN [c EXCEPT !.sounds = play_sound(@, "PaddleHit"),
                      !.ball.velocity_y = 0 - c.ball.velocity_y]
       ELSE LET d == EntitiesDelete(c, DOMAIN pads, e) IN
            IF d.panicked # "none"
            THEN d
            ELSE [d EXCEPT !.sounds = play_sound(@, "BrickHit2"),
                           !.ball.velocity_y = 0 - c.ball.velocity_y]

\* HitPaddle that lets a pass take one brick only
HitPaddleFirstOnly(c, pads, e) ==
  IF c.panicked # "none" \/ ~Overlaps(c.ball, pads[e])
  THEN c
  ELSE IF pads[e].player
       THEN IF c.ball.velocity_y < 0
            THEN [c EXCEPT !.sounds = play_sound(@, "PaddleHit"),
                           !.ball.velocity_y = 0 - c.ball.velocity_y]
            ELSE c
       ELSE IF c.killed # {}
            THEN c
            ELSE LET d == EntitiesDelete(c, DOMAIN pads, e) IN
                 IF d.panicked # "none"
                 THEN d
                 ELSE [d EXCEPT !.sounds = play_sound(@, "BrickHit2"),
                                !.ball.velocity_y = 0 - c.ball.velocity_y]

\* the body of the paddle loop for entity e
HitPaddle(c, pads, e) ==
  IF c.panicked # "none" \/ ~Overlaps(c.ball, pads[e])
  THEN c
  ELSE IF pads[e].player
       THEN IF c.ball.velocity_y < 0
            THEN [c EXCEPT !.sounds = play_sound(@, "PaddleHit"),
                           !.ball.velocity_y = 0 - c.ball.velocity_y]
            ELSE c
       ELSE LET d == EntitiesDelete(c, DOMAIN pads, e) IN
            IF d.panicked # "none"
            THEN d
            ELSE [d EXCEPT !.sounds = play_sound(@, "BrickHit2"),
                           !.ball.velocity_y = 0 - c.ball.velocity_y]

\* the join over (entities, paddles, transforms), visiting order[i], order[i+1], ...
RECURSIVE PaddleLoop(_, _, _, _)
PaddleLoop(c, pads, order, i) ==
  IF i > Len(order)
  THEN c
  ELSE PaddleLoop(IF order[i] \in DOMAIN pads THEN HitPaddle(c, pads, order[i]) ELSE c,
                  pads, order, i + 1)

\* the orders in which the join may visit the paddle entities: entity ids
\* ascend in creation order, and on_start creates the Player paddle before or
\* after the bricks as the HashMap iteration falls
BrickOrder == [i \in 1 .. 18 |-> i]
JoinOrders == {<<PlayerId>> \o BrickOrder, BrickOrder \o <<PlayerId>>}

\* CollisionSystem::run for one ball
CollideBall(c, pads, order) == PaddleLoop(WallX(WallY(c)), pads, order, 1)

\* CollisionSystem::run: w is the world [paddles, balls, killed, sounds, panicked]
RECURSIVE CollisionLoop(_, _, _)
CollisionLoop(w, order, i) ==
  IF i > Len(w.balls)
  THEN w
  ELSE LET c == CollideBall([ball |-> w.balls[i], killed |-> w.killed,
                             sounds |-> w.sounds, panicked |-> w.panicked],
                            w.paddles, order)
       IN CollisionLoop([w EXCEPT !.balls[i] = c.ball, !.killed = c.killed,
                                  !.sounds = c.sounds, !.panicked = c.panicked],
                        order, i + 1)

CollisionSystem(w, order) == CollisionLoop(w, order, 1)

\* the running dispatcher with collision_system ahead of the two movements
RunningDispatcherCollideFirst(w, axis, dt, order) ==
  LET c == CollisionSystem(w, order) IN
  [c EXCEPT !.paddles = PaddleSystem(c.paddles, axis, dt),
            !.balls = BallSystem(c.balls, dt)]

\* the running dispatcher: paddle_system, then ball_system, then collision_system
RunningDispatcher(w, axis, dt, order) ==
  CollisionSystem([w EXCEPT !.paddles = PaddleSystem(w.paddles, axis, dt),
                            !.balls = BallSystem(w.balls, dt)],
                  order)

\* BreakoutGameData::update(world, running): the running dispatcher is
\* dispatched only when running is true
GameDataUpdate(w, run, axis, dt, order) ==
  IF run THEN RunningDispatcher(w, axis, dt, order) ELSE w

\* World::maintain at the end of the frame: the entities marked by delete go
Maintain(w) ==
  [w EXCEPT !.paddles = [e \in (DOMAIN w.paddles) \ w.killed |-> w.paddles[e]],
            !.killed = {}]

\* one frame's update of the world under the given state's update
Frame(w, run, axis, dt, order) == Maintain(GameDataUpdate(w, run, axis, dt, order))

\* the world as the systems see it at the start of a handler
World == [paddles |-> paddles, balls |-> balls, killed |-> {},
          sounds |-> NoSounds, panicked |-> panicked]

-----------------------------------------------------------------------------
(* The state stack *)

Top == IF stack = << >> THEN "none" ELSE stack[Len(stack)]
Alive == running /\ panicked = "none"

\* ProgressCounter::is_complete: every load begun by init_assets has finished
is_complete == \A a \in AssetTypes : assets[a]

\* StartState::on_stop that hides nothing
StartOnStopNothing(hid) == hid

\* StartState::on_stop: the texts whose handles are known get Hidden
StartOnStop(hid) == hid \cup start_texts

\* PlayState::on_start, the arm of one entry of the SpriteSheetMap;
\* w is [paddles, balls, panicked], sheet the sprite metadata
PlayOnStartAsset(w, asset_type, sheet) ==
  LET width == sheet[asset_type].width * Scale
      height == sheet[asset_type].height * Scale
  IN
  IF w.panicked # "none" THEN w
  ELSE IF asset_type = "PaddleMedium"
  THEN IF ~assets[asset_type]
       THEN [w EXCEPT !.panicked = "Couldn't find the handle for the paddle sprite!"]
       ELSE [w EXCEPT !.paddles =
               (PlayerId :> [x |-> (VIRTUAL_WIDTH * Scale) \div 2,
                             y |-> (VIRTUAL_HEIGHT * Scale) \div 2
                                   - (VIRTUAL_HEIGHT * Scale) \div 2 + 16 * Scale,
                             width |-> width, height |-> height,
                             player |-> TRUE]) @@ @]
  ELSE IF asset_type = "Ball"
  THEN IF ~assets[asset_type]
       THEN [w EXCEPT !.panicked = "Couldn't find the handle for the ball sprite!"]
       ELSE [w EXCEPT !.balls =
               Append(@, [x |-> (VIRTUAL_WIDTH * Scale) \div 2,
                          y |-> (VIRTUAL_HEIGHT * Scale) \div 2,
                          velocity_x |-> 0 - BALL_VELOCITY,
                          velocity_y |-> 0 - BALL_VELOCITY,
                          radius |-> width \div 2])]
  ELSE IF asset_type = "PaddleSmall"
  THEN IF ~assets[asset_type]
       THEN [w EXCEPT !.panicked = "Couldn't find the handle for the paddle sprite!"]
       ELSE [w EXCEPT !.paddles =
               [e \in BrickIds |->
                  [x |-> (VIRTUAL_WIDTH * Scale * 10) \div 52
                         + BrickCol(e) * width + BrickCol(e) * 2 * Scale,
                   y |-> (VIRTUAL_HEIGHT * Scale * 10) \div 12
                         + BrickRow(e) * height + BrickRow(e) * 4 * Scale,
                   width |-> width, height |-> height,
                   player |-> FALSE]] @@ @]
  ELSE w

\* the loop of PlayState::on_start over the SpriteSheetMap, visited as order
RECURSIVE PlayOnStartLoop(_, _, _, _)
PlayOnStartLoop(w, order, sheet, i) ==
  IF i > Len(order)
  THEN w
  ELSE PlayOnStartLoop(PlayOnStartAsset(w, order[i], sheet), order, sheet, i + 1)

\* the iteration orders of the HashMap of the four asset types
MapOrders ==
  {o \in [1 .. 4 -> AssetTypes] : \A i, j \in 1 .. 4 : i # j => o[i] # o[j]}

PlayOnStart(order, sheet) ==
  PlayOnStartLoop([paddles |-> paddles, balls |-> balls, panicked |-> panicked],
                  order, sheet, 1)

Init ==
  /\ stack = <<"Start">>
  /\ running = TRUE
  /\ panicked = "none"
  /\ text_selected = "Start"
  /\ progress_counter = TRUE
  /\ assets = [a \in AssetTypes |-> FALSE]
  /\ ui_created = FALSE
  /\ start_texts = {}
  /\ play_title_ui_text = FALSE
  /\ hidden = {}
  /\ title_label = "BREAKOUT"
  /\ debounce_timer = None
  /\ backgrounds = 0
  /\ paddles = << >>
  /\ balls = << >>
  /\ sounds = NoSounds
  /\ ticks = 0

\* Trans::Quit: every state on the stack is stopped, the frame loop ends and
\* main returns, which drops the states and the world
Quit ==
  /\ running' = FALSE
  /\ stack' = << >>
  /\ text_selected' = "Start"
  /\ progress_counter' = FALSE
  /\ assets' = [a \in AssetTypes |-> FALSE]
  /\ ui_created' = FALSE
  /\ start_texts' = {}
  /\ play_title_ui_text' = FALSE
  /\ hidden' = {}
  /\ title_label' = "BREAKOUT"
  /\ debounce_timer' = None
  /\ backgrounds' = 0
  /\ paddles' = << >>
  /\ balls' = << >>
  /\ sounds' = NoSounds
  /\ UNCHANGED <<panicked, ticks>>

\* the Loader finishes the sprite sheet of one asset type.  The storage is read
\* by StartState::update and PlayState::on_start only, so loads that finish
\* after Start has been left are not followed.
AssetLoaded(a) ==
  /\ Alive
  /\ Top = "Start"
  /\ ~assets[a]
  /\ assets' = [assets EXCEPT ![a] = TRUE]
  /\ UNCHANGED <<stack, running, panicked, text_selected, progress_counter,
                 ui_created, start_texts, play_title_ui_text, hidden, title_label,
                 debounce_timer, backgrounds, paddles, balls, sounds, ticks>>

\* the UiCreator has built the entities of ui/text.ron
UiCreated ==
  /\ Alive
  /\ Top = "Start"
  /\ ~ui_created
  /\ ui_created' = TRUE
  /\ UNCHANGED <<stack, running, panicked, text_selected, progress_counter, assets,
                 start_texts, play_title_ui_text, hidden, title_label,
                 debounce_timer, backgrounds, paddles, balls, sounds, ticks>>

\* Trans::Switch(PlayState): StartState::on_stop, then PlayState::on_start
SwitchToPlay ==
  \E order \in MapOrders, sheet \in SpriteSheets :
    LET w == PlayOnStart(order, sheet) IN
    /\ stack' = <<"Play">>
    /\ hidden' = StartOnStop(hidden)
    /\ play_title_ui_text' = ("title" \in start_texts)
    /\ debounce_timer' = None
    /\ title_label' = IF "title" \in start_texts THEN "PAUSED" ELSE title_label
    /\ paddles' = w.paddles
    /\ balls' = w.balls
    /\ panicked' = w.panicked
    /\ sounds' = play_sound(NoSounds, "Confirm")
    \* the StartState is dropped: its fields go back to their defaults
    /\ text_selected' = "Start"
    /\ progress_counter' = FALSE
    /\ start_texts' = {}
    /\ UNCHANGED <<running, assets, ui_created, backgrounds, ticks>>

\* StartHandleEvent whose Return switches to Play whatever is selected
StartHandleEventAnyReturn(event) ==
  /\ Alive
  /\ Top = "Start"
  /\ IF event \in {"Close", "Escape"}
     THEN Quit
     ELSE IF event = "Up"
     THEN /\ text_selected' = "Start"
          /\ sounds' = play_sound(NoSounds, "PaddleHit")
          /\ UNCHANGED <<stack, running, panicked, progress_counter, assets,
                         ui_created, start_texts, play_title_ui_text, hidden,
                         title_label, debounce_timer, backgrounds, paddles, balls,
                         ticks>>
     ELSE IF event = "Down"
     THEN /\ text_selected' = "HighScore"
          /\ sounds' = play_sound(NoSounds, "PaddleHit")
          /\ UNCHANGED <<stack, running, panicked, progress_counter, assets,
                         ui_created, start_texts, play_title_ui_text, hidden,
                         title_label, debounce_timer, backgrounds, paddles, balls,
                         ticks>>
     ELSE IF event = "Return"
     THEN SwitchToPlay
     ELSE UNCHANGED vars

StartHandleEvent(event) ==
  /\ Alive
  /\ Top = "Start"
  /\ IF event \in {"Close", "Escape"}
     THEN Quit
     ELSE IF event = "Up"
     THEN /\ text_selected' = "Start"
          /\ sounds' = play_sound(NoSounds, "PaddleHit")
          /\ UNCHANGED <<stack, running, panicked, progress_counter, assets,
                         ui_created, start_texts, play_title_ui_text, hidden,
                         title_label, debounce_timer, backgrounds, paddles, balls,
                         ticks>>
     ELSE IF event = "Down"
     THEN /\ text_selected' = "HighScore"
          /\ sounds' = play_sound(NoSounds, "PaddleHit")
          /\ UNCHANGED <<stack, running, panicked, progress_counter, assets,
                         ui_created, start_texts, play_title_ui_text, hidden,
                         title_label, debounce_timer, backgrounds, paddles, balls,
                         ticks>>
     ELSE IF event = "Return"
     THEN IF text_selected = "Start"
          THEN SwitchToPlay
          ELSE /\ sounds' = play_sound(NoSounds, "Confirm")
               /\ UNCHANGED <<stack, running, panicked, text_selected,
                              progress_counter, assets, ui_created, start_texts,
                              play_title_ui_text, hidden, title_label,
                              debounce_timer, backgrounds, paddles, balls, ticks>>
     ELSE UNCHANGED <<sounds, stack, running, panicked, text_selected, progress_counter,
                         assets, ui_created, start_texts, play_title_ui_text,
                         hidden, title_label, debounce_timer, backgrounds, paddles,
                         balls, ticks>>

\* StartUpdate that keeps the progress counter after the background is spawned
StartUpdateKeepCounter(axis, dt, order) ==
  /\ Alive
  /\ Top = "Start"
  /\ start_texts' = IF ui_created THEN UiTexts ELSE start_texts
  /\ IF progress_counter /\ is_complete
     THEN /\ backgrounds' = backgrounds + 1
          /\ UNCHANGED progress_counter
     ELSE UNCHANGED <<backgrounds, progress_counter>>
  /\ LET w == Frame(World, TRUE, axis, dt, order) IN
       /\ paddles' = w.paddles
       /\ balls' = w.balls
       /\ sounds' = w.sounds
       /\ panicked' = w.panicked
  /\ UNCHANGED <<stack, running, text_selected, assets, ui_created,
                 play_title_ui_text, hidden, title_label, debounce_timer, ticks>>

StartUpdate(axis, dt, order) ==
  /\ Alive
  /\ Top = "Start"
  /\ start_texts' = IF ui_created THEN UiTexts ELSE start_texts
  /\ IF progress_counter /\ is_complete
     THEN /\ backgrounds' = backgrounds + 1
          /\ progress_counter' = FALSE
     ELSE UNCHANGED <<backgrounds, progress_counter>>
  /\ LET w == Frame(World, TRUE, axis, dt, order) IN
       /\ paddles' = w.paddles
       /\ balls' = w.balls
       /\ sounds' = w.sounds
       /\ panicked' = w.panicked
  /\ UNCHANGED <<stack, running, text_selected, assets, ui_created,
                 play_title_ui_text, hidden, title_label, debounce_timer, ticks>>

\* PushPaused as a Switch: PausedState takes the place of PlayState
PushPausedSwitch ==
  /\ stack' = <<"Paused">>
  /\ sounds' = play_sound(NoSounds, "Pause")
  /\ IF play_title_ui_text
     THEN IF "title" \in hidden
          THEN /\ hidden' = hidden \ {"title"}
               /\ UNCHANGED panicked
          ELSE /\ panicked' = "Couldn't show paused text!"
               /\ UNCHANGED hidden
     ELSE UNCHANGED <<hidden, panicked>>
  /\ UNCHANGED <<running, text_selected, progress_counter, assets, ui_created,
                 start_texts, play_title_ui_text, title_label, debounce_timer,
                 backgrounds, paddles, balls, ticks>>

\* Trans::Push(PausedState): PlayState::on_pause, then PausedState on top
PushPaused ==
  /\ stack' = Append(stack, "Paused")
  /\ sounds' = play_sound(NoSounds, "Pause")
  /\ IF play_title_ui_text
     THEN IF "title" \in hidden
          THEN /\ hidden' = hidden \ {"title"}
               /\ UNCHANGED panicked
          ELSE /\ panicked' = "Couldn't show paused text!"
               /\ UNCHANGED hidden
     ELSE UNCHANGED <<hidden, panicked>>
  /\ UNCHANGED <<running, text_selected, progress_counter, assets, ui_created,
                 start_texts, play_title_ui_text, title_label, debounce_timer,
                 backgrounds, paddles, balls, ticks>>

\* PlayHandleEvent without the debounce test on Space
PlayHandleEventNoDebounce(event) ==
  /\ Alive
  /\ Top = "Play"
  /\ IF event \in {"Close", "Escape"}
     THEN Quit
     ELSE IF event = "Space"
     THEN PushPaused
     ELSE UNCHANGED vars

\* PlayHandleEvent that returns Trans::None for every event while the
\* debounce timer runs
PlayHandleEventDeaf(event) ==
  /\ Alive
  /\ Top = "Play"
  /\ IF debounce_timer # None
     THEN UNCHANGED vars
     ELSE IF event \in {"Close", "Escape"}
     THEN Quit
     ELSE IF event = "Space"
     THEN PushPaused
     ELSE UNCHANGED vars

PlayHandleEvent(event) ==
  /\ Alive
  /\ Top = "Play"
  /\ IF event \in {"Close", "Escape"}
     THEN Quit
     ELSE IF event = "Space" /\ debounce_timer = None
     THEN PushPaused
     ELSE UNCHANGED <<sounds, stack, running, panicked, text_selected, progress_counter,
                         assets, ui_created, start_texts, play_title_ui_text,
                         hidden, title_label, debounce_timer, backgrounds, paddles,
                         balls, ticks>>

\* TimerUpdate that drops the timer as soon as the remainder is not positive
TimerUpdateStrict(timer, dt) ==
  IF timer # None
  THEN LET time == timer[1] - dt IN
       IF time > 0 THEN Some(time) ELSE None
  ELSE None

\* the debounce timer after PlayState::update's take / replace
TimerUpdate(timer, dt) ==
  IF timer # None
  THEN LET time == timer[1] - dt IN
       IF time >= 0 THEN Some(time) ELSE None
  ELSE None

\* the number of PlayState updates followed from the present state
TickBound ==
  IF backgrounds = 1 /\ play_title_ui_text THEN MaxTicks ELSE MaxEarlyTicks

PlayUpdate(axis, dt, order) ==
  /\ Alive
  /\ Top = "Play"
  /\ ticks < TickBound
  /\ ticks' = ticks + 1
  /\ debounce_timer' = TimerUpdate(debounce_timer, dt)
  /\ LET w == Frame(World, TRUE, axis, dt, order) IN
       /\ paddles' = w.paddles
       /\ balls' = w.balls
       /\ sounds' = w.sounds
       /\ panicked' = w.panicked
  /\ UNCHANGED <<stack, running, text_selected, progress_counter, assets,
                 ui_created, start_texts, play_title_ui_text, hidden, title_label,
                 backgrounds>>

\* PopPaused with an on_resume that spawns the brick grid again
PopPausedRespawn ==
  /\ stack' = SubSeq(stack, 1, Len(stack) - 1)
  /\ debounce_timer' = Some(DEBOUNCE_TIME)
  /\ sounds' = play_sound(NoSounds, "Pause")
  /\ hidden' = IF play_title_ui_text THEN hidden \cup {"title"} ELSE hidden
  /\ paddles' = PlayOnStartAsset([paddles |-> paddles, balls |-> balls,
                                  panicked |-> panicked],
                                 "PaddleSmall",
                                 CHOOSE sheet \in SpriteSheets : TRUE).paddles
  /\ UNCHANGED <<running, panicked, text_selected, progress_counter, assets,
                 ui_created, start_texts, play_title_ui_text, title_label,
                 backgrounds, balls, ticks>>

\* PopPaused with an on_resume that puts the ball back to its spawn state
PopPausedResetBall ==
  /\ stack' = SubSeq(stack, 1, Len(stack) - 1)
  /\ debounce_timer' = Some(DEBOUNCE_TIME)
  /\ sounds' = play_sound(NoSounds, "Pause")
  /\ hidden' = IF play_title_ui_text THEN hidden \cup {"title"} ELSE hidden
  /\ balls' = [i \in DOMAIN balls |->
                [balls[i] EXCEPT !.x = (VIRTUAL_WIDTH * Scale) \div 2,
                                 !.y = (VIRTUAL_HEIGHT * Scale) \div 2,
                                 !.velocity_x = 0 - BALL_VELOCITY,
                                 !.velocity_y = 0 - BALL_VELOCITY]]
  /\ UNCHANGED <<running, panicked, text_selected, progress_counter, assets,
                 ui_created, start_texts, play_title_ui_text, title_label,
                 backgrounds, paddles, ticks>>

\* Trans::Pop: PausedState is dropped, then PlayState::on_resume
PopPaused ==
  /\ stack' = SubSeq(stack, 1, Len(stack) - 1)
  /\ debounce_timer' = Some(DEBOUNCE_TIME)
  /\ sounds' = play_sound(NoSounds, "Pause")
  /\ hidden' = IF play_title_ui_text THEN hidden \cup {"title"} ELSE hidden
  /\ UNCHANGED <<running, panicked, text_selected, progress_counter, assets,
                 ui_created, start_texts, play_title_ui_text, title_label,
                 backgrounds, paddles, balls, ticks>>

PausedHandleEvent(event) ==
  /\ Alive
  /\ Top = "Paused"
  /\ IF event \in {"Close", "Escape"}
     THEN Quit
     ELSE IF event = "Space"
     THEN PopPaused
     ELSE UNCHANGED <<sounds, stack, running, panicked, text_selected, progress_counter,
                         assets, ui_created, start_texts, play_title_ui_text,
                         hidden, title_label, debounce_timer, backgrounds, paddles,
                         balls, ticks>>

\* PausedUpdate that passes running = true to the game data
PausedUpdateRunning(axis, dt, order) ==
  /\ Alive
  /\ Top = "Paused"
  /\ LET w == Frame(World, TRUE, axis, dt, order) IN
       /\ paddles' = w.paddles
       /\ balls' = w.balls
       /\ panicked' = w.panicked
  /\ UNCHANGED <<sounds, stack, running, text_selected, progress_counter, assets,
                 ui_created, start_texts, play_title_ui_text, hidden, title_label,
                 debounce_timer, backgrounds, ticks>>

PausedUpdate(axis, dt, order) ==
  /\ Alive
  /\ Top = "Paused"
  /\ LET w == Frame(World, FALSE, axis, dt, order) IN
       /\ paddles' = w.paddles
       /\ balls' = w.balls
       /\ panicked' = w.panicked
  /\ UNCHANGED <<sounds, stack, running, text_selected, progress_counter, assets,
                 ui_created, start_texts, play_title_ui_text, hidden, title_label,
                 debounce_timer, backgrounds, ticks>>

Next ==
  \/ \E a \in AssetTypes : AssetLoaded(a)
  \/ UiCreated
  \/ \E event \in Events : StartHandleEvent(event)
  \/ \E axis \in AxisReadings, dt \in DeltaTimes, order \in JoinOrders :
       StartUpdate(axis, dt, order)
  \/ \E event \in Events : PlayHandleEvent(event)
  \/ \E axis \in AxisReadings, dt \in DeltaTimes, order \in JoinOrders :
       PlayUpdate(axis, dt, order)
  \/ \E event \in Events : PausedHandleEvent(event)
  \/ \E axis \in AxisReadings, dt \in DeltaTimes, order \in JoinOrders :
       PausedUpdate(axis, dt, order)

Spec == Init /\ [][Next]_vars

\* the steps of PlayUpdate, told by the tick counter that only PlayUpdate
\* advances while PlayState is on top
PlayUpdateStep ==
  /\ Alive
  /\ Top = "Play"
  /\ ticks < TickBound
  /\ ticks' = ticks + 1

\* the engine's loop calls the active state's update once per frame for as long
\* as the application runs: an update of PlayState that stays possible happens
FairSpec == Spec /\ WF_ticks(PlayUpdateStep)

-----------------------------------------------------------------------------
(* Properties *)

\* the paddle entities without the Player tag
Bricks == {e \in DOMAIN paddles : ~paddles[e].player}
Players == {e \in DOMAIN paddles : paddles[e].player}
InPlay == panicked = "none" /\ Top \in {"Play", "Paused"}
DeleteFailed == panicked = "Couldn't delete paddle while colliding with ball!"

\* C1  Paddle clamp: in every reachable state the x of a Player paddle no wider
\* than the field lies in [width / 2, VIRTUAL_WIDTH - width / 2], whatever axis
\* values and delta times the updates were given.
C1_PaddleClamp ==
  \A e \in Players :
    paddles[e].width <= VIRTUAL_WIDTH * Scale =>
      /\ paddles[e].x >= paddles[e].width \div 2
      /\ paddles[e].x <= VIRTUAL_WIDTH * Scale - paddles[e].width \div 2

\* a PlayState update has driven the paddle into the right-hand clamp
C1_Witness ==
  /\ InPlay /\ ticks > 0
  /\ \E e \in Players :
       paddles[e].x = VIRTUAL_WIDTH * Scale - paddles[e].width \div 2

\* C2  Elasticity: in every state of Play or Paused both velocity components of
\* the ball have magnitude BALL_VELOCITY; reflections only flip signs.
C2_Elastic ==
  InPlay =>
    \A i \in DOMAIN balls :
      /\ balls[i].velocity_x \in {BALL_VELOCITY, 0 - BALL_VELOCITY}
      /\ balls[i].velocity_y \in {BALL_VELOCITY, 0 - BALL_VELOCITY}

\* both components have been reflected and a brick has been hit
C2_Witness ==
  /\ InPlay /\ balls # << >>
  /\ balls[1].velocity_x = BALL_VELOCITY
  /\ balls[1].velocity_y = BALL_VELOCITY
  /\ Cardinality(Bricks) < 18

\* C3  Brick monotonicity: once Play has been entered no step adds a brick to
\* the store (so the count never grows and a deleted brick never returns), and
\* the resolver's delete never fails.
C3_BricksMonotone ==
  [][/\ Top # "Start" => Bricks' \subseteq Bricks
     /\ ~DeleteFailed']_vars

\* a brick has been deleted and the game has since been paused and resumed
C3_Witness ==
  /\ InPlay /\ Top = "Play" /\ debounce_timer # None
  /\ balls # << >>
  /\ Cardinality(Bricks) < 18

\* C4  The Player paddle exists in every state of Play or Paused.
C4_PlayerKept ==
  InPlay => PlayerId \in DOMAIN paddles /\ paddles[PlayerId].player

\* a resolver pass has found the ball inside the Player paddle's box
C4_Witness ==
  /\ InPlay /\ ticks > 0
  /\ PlayerId \in DOMAIN paddles
  /\ \E i \in DOMAIN balls : Overlaps(balls[i], paddles[PlayerId])


\* the ball is away from the place PlayState::on_start spawned it at
BallMoved ==
  /\ balls # << >>
  /\ balls[1].x # (VIRTUAL_WIDTH * Scale) \div 2

\* C5  Debounce: the resume Paused --Space--> Play leaves the timer at 0.25 s,
\* the timer exists only while Play is the active mode, and no step taken from
\* Play while the timer is present (a Space press included) makes Paused the
\* active mode.
C5_Debounce ==
  /\ [](debounce_timer # None => Top = "Play")
  /\ [][/\ PausedHandleEvent("Space") => debounce_timer' = Some(DEBOUNCE_TIME)
        /\ (Top = "Play" /\ debounce_timer # None) => Top' # "Paused"
        /\ (PlayHandleEvent("Space") /\ debounce_timer # None) => UNCHANGED vars]_vars

\* Play after a resume, one update later, with the timer still present
C5_Witness ==
  /\ InPlay /\ Top = "Play"
  /\ debounce_timer = Some(0)
  /\ BallMoved

\* C6  Start: the machine starts in Start with Start selected; Up selects Start
\* and Down HighScore; Return leaves Start for Play exactly when Start is
\* selected; only that Return, or a quit event, leaves Start.
C6_StartTransitions ==
  /\ stack = <<"Start">> /\ text_selected = "Start"
  /\ [][/\ StartHandleEvent("Up") => text_selected' = "Start" /\ stack' = stack
        /\ StartHandleEvent("Down") => text_selected' = "HighScore" /\ stack' = stack
        /\ StartHandleEvent("Return") =>
             /\ text_selected = "Start" => stack' = <<"Play">>
             /\ text_selected # "Start" => stack' = stack /\ text_selected' = text_selected
        /\ (Top = "Start" /\ stack' # stack) =>
             \/ StartHandleEvent("Return") /\ text_selected = "Start"
             \/ StartHandleEvent("Close") /\ ~running'
             \/ StartHandleEvent("Escape") /\ ~running']_vars

\* Return was pressed with HighScore selected and the mode is still Start
C6_Witness ==
  /\ Top = "Start"
  /\ text_selected = "HighScore"
  /\ sounds["Confirm"] = 1

\* C7  Pause / resume: Space in Play without a timer puts Paused on top of
\* Play, Space in Paused goes back to Play, and the push, every step taken
\* while Paused and the pop all leave paddles and balls (positions, velocities,
\* brick set) as they were: nothing is respawned.
C7_PauseResume ==
  [][/\ (PlayHandleEvent("Space") /\ debounce_timer = None) =>
          /\ stack' = <<"Play", "Paused">>
          /\ paddles' = paddles /\ balls' = balls
     /\ PausedHandleEvent("Space") =>
          /\ stack' = <<"Play">>
          /\ paddles' = paddles /\ balls' = balls
     /\ (Top = "Paused" /\ Top' = "Paused") =>
          paddles' = paddles /\ balls' = balls]_vars

\* Play resumed after a pause taken when the ball had moved and a brick was gone
C7_Witness ==
  /\ InPlay /\ Top = "Play"
  /\ debounce_timer = Some(DEBOUNCE_TIME)
  /\ BallMoved
  /\ Cardinality(Bricks) < 18

\* a Close or Escape event handled by the active state
QuitEvent ==
  \E event \in {"Close", "Escape"} :
    \/ StartHandleEvent(event)
    \/ PlayHandleEvent(event)
    \/ PausedHandleEvent(event)

\* C8  Quit: in Start, Play (timer or not) and Paused a Close or Escape event
\* can be handled and ends the run (stack empty, loop stopped); after that no
\* step changes anything.
C8_Quit ==
  /\ [](Alive => ENABLED (QuitEvent /\ ~running' /\ stack' = << >>))
  /\ [][/\ QuitEvent => ~running' /\ stack' = << >>
        /\ running]_vars

\* the run was quit after PlayState updates had run
C8_Witness ==
  /\ ~running
  /\ stack = << >>
  /\ ticks > 1

\* an update handled by PausedState
AnyPausedUpdate ==
  \E axis \in AxisReadings, dt \in DeltaTimes, order \in JoinOrders :
    PausedUpdate(axis, dt, order)

\* C9  Paused freezes the simulation: an update taken while Paused is active
\* leaves balls (position, velocity) and paddles (Player position, brick set)
\* unchanged for every axis reading and delta time.
C9_PausedFreezes ==
  [][AnyPausedUpdate => paddles' = paddles /\ balls' = balls]_vars

\* Paused on top of a Play whose ball is moving and whose paddle has moved
C9_Witness ==
  /\ InPlay /\ Top = "Paused"
  /\ BallMoved
  /\ paddles[PlayerId].x # (VIRTUAL_WIDTH * Scale) \div 2

\* C10  Start polling: there is never more than one background entity, and
\* while Start is active the background exists only with the progress counter
\* cleared, so later updates spawn nothing.
C10_OneBackground ==
  /\ backgrounds <= 1
  /\ (Top = "Start" /\ backgrounds = 1) => ~progress_counter

\* Start with the background spawned and the texts found by an update
C10_Witness ==
  /\ Top = "Start"
  /\ backgrounds = 1
  /\ ~progress_counter
  /\ start_texts = UiTexts

-----------------------------------------------------------------------------
(* The resolver pass seen from a step *)

\* the step is an update of PlayState
PlayTick == Top = "Play" /\ ticks' = ticks + 1

\* ball i as the resolver pass of this step finds it: BallSystem has moved it
\* (the pass does not move it further) and its velocity is still the old one
PassBall(i) == [balls[i] EXCEPT !.x = balls'[i].x, !.y = balls'[i].y]

\* the bricks whose widened box holds the centre of ball i at the pass
\* (bricks are not moved by any system)
BricksHit(i) == {e \in Bricks : Overlaps(PassBall(i), paddles[e])}

\* C11 as stated: a pass that starts with the ball inside a brick's box and
\* velocity_y = -70 ends with that brick gone, velocity_y = +70 and a
\* brick-hit sound requested.
C11_Original ==
  [][PlayTick =>
       \A i \in DOMAIN balls :
         (BricksHit(i) # {} /\ balls[i].velocity_y = 0 - BALL_VELOCITY) =>
           /\ BricksHit(i) \cap Bricks' = {}
           /\ balls'[i].velocity_y = BALL_VELOCITY
           /\ sounds'["BrickHit2"] >= 1]_vars

\* C11  Brick hit (amended): a pass that starts with the ball inside the box
\* of one or more bricks and velocity_y = -70 ends with those bricks gone and
\* one brick-hit sound requested per brick; velocity_y is +70 when the number
\* of such bricks is odd (one brick: Scenario C) and -70 when it is even.
C11_BrickHit ==
  [][PlayTick =>
       \A i \in DOMAIN balls :
         (BricksHit(i) # {} /\ balls[i].velocity_y = 0 - BALL_VELOCITY) =>
           /\ BricksHit(i) \cap Bricks' = {}
           /\ sounds'["BrickHit2"] = Cardinality(BricksHit(i))
           /\ balls'[i].velocity_y =
                IF Cardinality(BricksHit(i)) % 2 = 1
                THEN BALL_VELOCITY ELSE 0 - BALL_VELOCITY]_vars

\* a ball that came down met two bricks in one pass: both are gone, both
\* sounds were requested, and velocity_y, negated twice, is -70 again
C11_Witness ==
  /\ InPlay /\ ticks > 0 /\ balls # << >>
  /\ sounds["BrickHit2"] = 2
  /\ balls[1].velocity_y = 0 - BALL_VELOCITY
  /\ Cardinality(Bricks) < 18

\* ball i as the paddle loop of this step's pass finds it: after the wall rules
PaddleTest(i) ==
  WallX(WallY([ball |-> PassBall(i), killed |-> {},
               sounds |-> NoSounds, panicked |-> "none"])).ball

\* at this step's pass the centre of ball i is inside the box of the Player
\* paddle, which PaddleSystem has already moved
PlayerHit(i) ==
  /\ PlayerId \in DOMAIN paddles'
  /\ Overlaps(PassBall(i), paddles'[PlayerId])

\* C12  Player-paddle reflection without sticking: with the ball inside the
\* Player paddle's box at the paddle test, velocity_y < 0 is negated to +70,
\* the paddle stays and one paddle-hit sound is requested; velocity_y >= 0 is
\* left unchanged with no sound. A ball that a pass left inside the box moves
\* up, and a next pass that finds it inside again does not flip it.
C12_NoSticking ==
  [][PlayTick =>
       \A i \in DOMAIN balls :
         PlayerHit(i) =>
           LET vy == PaddleTest(i).velocity_y IN
           /\ vy < 0 => /\ balls'[i].velocity_y = BALL_VELOCITY
                        /\ balls'[i].velocity_y = 0 - vy
                        /\ Players' = {PlayerId}
                        /\ sounds'["PaddleHit"] = 1
           /\ vy >= 0 => /\ balls'[i].velocity_y = vy
                         /\ sounds'["PaddleHit"] = 0
           /\ (ticks > 0 /\ Overlaps(balls[i], paddles[PlayerId])) =>
                /\ balls[i].velocity_y > 0
                /\ balls'[i].velocity_y = balls[i].velocity_y
                /\ sounds'["PaddleHit"] = 0]_vars

\* the ball came down into the Player paddle's box and was sent up
C12_Witness ==
  /\ InPlay /\ ticks > 0 /\ balls # << >>
  /\ PlayerId \in DOMAIN paddles
  /\ Overlaps(balls[1], paddles[PlayerId])
  /\ sounds["PaddleHit"] = 1
  /\ balls[1].velocity_y = BALL_VELOCITY

\* the conditions of the two wall rules on a ball
FlipY(b) ==
  \/ b.y - b.radius <= 0 /\ b.velocity_y < 0
  \/ b.y + b.radius >= VIRTUAL_HEIGHT * Scale /\ b.velocity_y > 0
FlipX(b) ==
  \/ b.x - b.radius <= 0 /\ b.velocity_x < 0
  \/ b.x + b.radius >= VIRTUAL_WIDTH * Scale /\ b.velocity_x > 0

\* v with its sign turned n times
Negated(v, n) == IF n % 2 = 1 THEN 0 - v ELSE v

\* Scenario A: a ball at (216, 2) moving down, either way sideways
ScenarioA ==
  {[x |-> 216 * Scale, y |-> 2 * Scale, velocity_x |-> vx,
    velocity_y |-> 0 - BALL_VELOCITY, radius |-> 4 * Scale] :
     vx \in {0 - BALL_VELOCITY, BALL_VELOCITY}}

\* one resolver pass over ball b with the paddles of the current state
OnePass(b, order) ==
  CollideBall([ball |-> b, killed |-> {}, sounds |-> NoSounds,
               panicked |-> "none"], paddles, order)

\* C13  Wall reflection: in every resolver pass the vertical rule negates
\* velocity_y exactly when (y - radius <= 0 and velocity_y < 0) or
\* (y + radius >= 243 and velocity_y > 0), the horizontal rule does the same
\* for velocity_x with 432, and each flip requests one wall-hit sound (the
\* other flips of velocity_y are the paddle and brick hits, counted by their
\* own sounds). A ball at (216, 2) with velocity_y = -70 has velocity_y = +70
\* after one pass, with exactly one wall-hit sound.
C13_WallReflection ==
  /\ [][PlayTick =>
          \A i \in DOMAIN balls :
            LET b == PassBall(i)
                ny == IF FlipY(b) THEN 1 ELSE 0
                nx == IF FlipX(b) THEN 1 ELSE 0
            IN /\ sounds'["WallHit"] = ny + nx
               /\ balls'[i].velocity_x = Negated(b.velocity_x, nx)
               /\ balls'[i].velocity_y =
                    Negated(b.velocity_y,
                            ny + sounds'["PaddleHit"] + sounds'["BrickHit2"])
               /\ PaddleTest(i).velocity_y = Negated(b.velocity_y, ny)]_vars
  /\ [](InPlay =>
          \A b \in ScenarioA : \A order \in JoinOrders :
            /\ OnePass(b, order).ball.velocity_y = BALL_VELOCITY
            /\ OnePass(b, order).sounds["WallHit"] = 1
            /\ OnePass(b, order).ball.velocity_x = b.velocity_x)

\* the ball went below y = radius moving down and the bottom wall sent it up
C13_Witness ==
  /\ InPlay /\ ticks > 0 /\ balls # << >>
  /\ balls[1].y <= balls[1].radius
  /\ balls[1].velocity_y = BALL_VELOCITY
  /\ sounds["WallHit"] = 1

\* the step is the Switch from StartState that ran PlayState::on_start to its end
PlayEntered == Top = "Start" /\ Top' = "Play" /\ panicked' = "none"

\* C14  Play population: PlayState::on_start, run to its end, leaves exactly
\* one Player paddle, exactly one ball, with velocity (-70, -70), and exactly
\* 18 bricks in 2 rows of 9; in every state of the running program with
\* PlayState on the stack (on top or beneath PausedState) there are exactly one
\* ball, exactly one Player paddle and at most 18 bricks.
C14_Population ==
  /\ [][PlayEntered =>
          /\ Players' = {PlayerId}
          /\ Len(balls') = 1
          /\ balls'[1].velocity_x = 0 - BALL_VELOCITY
          /\ balls'[1].velocity_y = 0 - BALL_VELOCITY
          /\ Bricks' = BrickIds /\ Cardinality(Bricks') = 18
          /\ \A x \in 0 .. 1 :
               Cardinality({e \in Bricks' : BrickRow(e) = x}) = 9]_vars
  /\ [](InPlay =>
          /\ Len(balls) = 1
          /\ Cardinality(Players) = 1
          /\ Cardinality(Bricks) <= 18)

\* bricks have been hit, PausedState is on top of PlayState, and the ball and
\* the Player paddle are still there
C14_Witness ==
  /\ InPlay /\ Top = "Paused" /\ ticks > 0
  /\ Len(balls) = 1 /\ Cardinality(Players) = 1
  /\ Cardinality(Bricks) < 18

\* C15  Fixed per-tick order: in every tick that runs the simulation the
\* resolver comes after the Paddle Controller and the Ball Integrator of the
\* same tick: the bricks it removes are those whose box holds the ball where
\* the tick moved it, the Player paddle is tested where the tick moved it, and
\* the wall rules are tested on the moved ball, never on the positions the
\* tick started from.
C15_SystemOrder ==
  [][PlayTick =>
       \A i \in DOMAIN balls :
         /\ Bricks \ Bricks' = BricksHit(i)
         /\ sounds'["BrickHit2"] = Cardinality(BricksHit(i))
         /\ sounds'["PaddleHit"] =
              IF PlayerHit(i) /\ PaddleTest(i).velocity_y < 0 THEN 1 ELSE 0
         /\ sounds'["WallHit"] =
              (IF FlipY(PassBall(i)) THEN 1 ELSE 0)
              + (IF FlipX(PassBall(i)) THEN 1 ELSE 0)]_vars

\* a tick moved the ball into the box of a brick and removed the brick at
\* once: the ball was outside that box when the tick began
C15_Witness ==
  /\ InPlay /\ Top = "Play" /\ ticks > 0 /\ balls # << >>
  /\ sounds["BrickHit2"] = 1
  /\ Cardinality(BrickIds \ Bricks) = 1

\* C16  All-overlapping semantics: a resolver pass removes every brick whose
\* widened box holds the ball's centre, not only the first it meets, negates
\* velocity_y once for each of them and requests one brick-hit sound for each;
\* every other brick stays in the store.
C16_AllOverlapping ==
  [][PlayTick =>
       \A i \in DOMAIN balls :
         /\ Bricks' = Bricks \ BricksHit(i)
         /\ \A e \in Bricks \ BricksHit(i) : paddles'[e] = paddles[e]
         /\ sounds'["BrickHit2"] = Cardinality(BricksHit(i))
         /\ balls'[i].velocity_y =
              Negated(PaddleTest(i).velocity_y,
                      Cardinality(BricksHit(i)) + sounds'["PaddleHit"])]_vars

\* one pass took two bricks and left the others
C16_Witness ==
  /\ InPlay /\ ticks > 0
  /\ sounds["BrickHit2"] = 2
  /\ Cardinality(BrickIds \ Bricks) >= 2
  /\ Bricks # {}

\* C17  Paddle Controller frame: a Paddle Controller step over the paddles of
\* any reachable state, for any axis reading and delta time, keeps the set of
\* paddle entities and every brick as it is and changes at most the x of the
\* Player paddle (the ball is not among what it writes); with an axis value of
\* exactly 0 or no reading it changes nothing. So across a whole tick the
\* Player paddle's y and the bricks that stay keep their values.
C17_PaddleFrame ==
  /\ [](InPlay =>
          \A axis \in AxisReadings : \A dt \in DeltaTimes :
            LET after == PaddleSystem(paddles, axis, dt) IN
            /\ DOMAIN after = DOMAIN paddles
            /\ \A e \in Bricks : after[e] = paddles[e]
            /\ \A e \in Players : [after[e] EXCEPT !.x = paddles[e].x] = paddles[e]
            /\ (axis = None \/ axis = Some(0)) => after = paddles)
  /\ [][PlayTick =>
          /\ \A e \in Players : [paddles'[e] EXCEPT !.x = paddles[e].x] = paddles[e]
          /\ \A e \in Bricks' : paddles'[e] = paddles[e]]_vars

\* the Player paddle has been moved off its starting x with all bricks in place
C17_Witness ==
  /\ InPlay /\ ticks > 0
  /\ PlayerId \in DOMAIN paddles
  /\ paddles[PlayerId].x # (VIRTUAL_WIDTH * Scale) \div 2
  /\ paddles[PlayerId].y = 16 * Scale
  /\ Bricks = BrickIds

\* the step is the Push of PausedState / the Pop back to PlayState, with the
\* title handle known to PlayState
PauseStep == Top = "Play" /\ Top' = "Paused" /\ play_title_ui_text
ResumeStep == Top = "Paused" /\ Top' = "Play" /\ play_title_ui_text

\* the title carries Hidden while PlayState is active with the handle known,
\* and not while PausedState is active; on_pause's expect never fails
TitleHiddenInPlay ==
  /\ (panicked = "none" /\ Top = "Play" /\ play_title_ui_text) => "title" \in hidden
  /\ (panicked = "none" /\ Top = "Paused") => "title" \notin hidden
  /\ panicked # "Couldn't show paused text!"

\* C18 as stated: on pause the title is relabelled to "PAUSED" and shown, on
\* resume it is relabelled back and hidden; Hidden is on the title whenever
\* Play is active with the handle known and off whenever Paused is active.
C18_Original ==
  /\ [][PauseStep => title_label' = "PAUSED" /\ "title" \notin hidden']_vars
  /\ [][ResumeStep => title_label' # "PAUSED" /\ "title" \in hidden']_vars
  /\ []TitleHiddenInPlay

\* C18  Title text on pause/resume (amended): the title is relabelled to
\* "PAUSED" once, on entering Play, and keeps that label from then on; on pause
\* it is made visible (Hidden removed) and on resume it is hidden again, the
\* label staying "PAUSED". Whenever Play is active and the title handle is
\* known the title carries Hidden, so the removal in on_pause always
\* succeeds, and whenever Paused is active it does not.
C18_TitleText ==
  /\ [][(PlayEntered /\ play_title_ui_text') => title_label' = "PAUSED"]_vars
  /\ [][PauseStep => title_label' = "PAUSED" /\ "title" \notin hidden']_vars
  /\ [][ResumeStep => title_label' = "PAUSED" /\ "title" \in hidden']_vars
  /\ [](InPlay /\ play_title_ui_text => title_label = "PAUSED")
  /\ []TitleHiddenInPlay

\* Play is active again after a pause and a resume: the title is hidden and
\* still reads "PAUSED"
C18_Witness ==
  /\ panicked = "none" /\ Top = "Play" /\ play_title_ui_text
  /\ debounce_timer # None
  /\ "title" \in hidden
  /\ title_label = "PAUSED"

\* the paddles as this step's pass finds them: the Player paddle moved
PassPaddles ==
  [e \in DOMAIN paddles |->
     IF paddles[e].player /\ e \in DOMAIN paddles' THEN paddles'[e] ELSE paddles[e]]

\* the entities that the pass finds overlapping ball i, and the orders in
\* which a join can visit them (the others leave the pass as it is)
Overlapped(i) == {e \in DOMAIN paddles : Overlaps(PassBall(i), PassPaddles[e])}
Perms(S) ==
  {o \in [1 .. Cardinality(S) -> S] :
     \A j, k \in 1 .. Cardinality(S) : j # k => o[j] # o[k]}

\* C19  Resolver determinism under iteration order: in every resolver pass of
\* a reachable Play state, visiting the overlapping paddle entities in any
\* order gives the one result that the pass had: the same ball velocity, the
\* same deleted bricks and the same sound requests; and the ball's centre is
\* never inside both the Player paddle's box and a brick's box, neither at a
\* pass nor in any reachable state.
C19_OrderIndependent ==
  /\ [][PlayTick =>
          \A i \in DOMAIN balls :
            /\ \A o \in Perms(Overlapped(i)) :
                 LET r == PaddleLoop(WallX(WallY([ball |-> PassBall(i), killed |-> {},
                                                  sounds |-> NoSounds,
                                                  panicked |-> "none"])),
                                     PassPaddles, o, 1)
                 IN /\ r.ball = balls'[i]
                    /\ r.killed = Bricks \ Bricks'
                    /\ r.sounds = sounds'
                    /\ r.panicked = panicked'
            /\ ~(PlayerHit(i) /\ BricksHit(i) # {})]_vars
  /\ [](InPlay =>
          \A i \in DOMAIN balls : \A e \in Players : \A f \in Bricks :
            ~(Overlaps(balls[i], paddles[e]) /\ Overlaps(balls[i], paddles[f])))

\* one pass met two bricks of one row, side by side: two entities whose
\* visiting order could have mattered
C19_Witness ==
  /\ InPlay /\ Top = "Play" /\ ticks > 0 /\ balls # << >>
  /\ sounds["BrickHit2"] = 2
  /\ \E e, f \in BrickIds \ Bricks : e # f /\ BrickRow(e) = BrickRow(f)

\* the delta time of this step's update, read off the ball's movement
StepDt == CHOOSE dt \in DeltaTimes : BallMove(balls[1], dt).x = balls'[1].x

\* the updates the timer of on_resume survives at most, at the smallest delta
MinDelta == CHOOSE d \in DeltaTimes : \A e \in DeltaTimes : d <= e
ExpiryTicks == DEBOUNCE_TIME \div MinDelta + 1

\* C20  Debounce expiry: the timer appears only by a resume, with 0.25 s, and
\* its remaining value is always within [0, 0.25]; an update of Play subtracts
\* its delta time, keeps the timer while the remainder is >= 0 (so after
\* exactly 0.25 s it is still there, at 0) and clears it on the first update
\* whose remainder is negative. While updates of Play keep coming the timer is
\* eventually cleared, and with the timer cleared a Space press pushes Paused.
C20_DebounceExpiry ==
  /\ [](debounce_timer # None =>
          debounce_timer[1] >= 0 /\ debounce_timer[1] <= DEBOUNCE_TIME)
  /\ [][(debounce_timer = None /\ debounce_timer' # None) =>
          /\ Top = "Paused" /\ Top' = "Play"
          /\ debounce_timer' = Some(DEBOUNCE_TIME)]_vars
  /\ [][(PlayTick /\ balls # << >>) =>
          IF debounce_timer = None
          THEN debounce_timer' = None
          ELSE LET time == debounce_timer[1] - StepDt IN
               /\ time >= 0 => debounce_timer' = Some(time)
               /\ time < 0 => debounce_timer' = None]_vars
  /\ (Alive /\ Top = "Play" /\ debounce_timer # None
      /\ ticks + ExpiryTicks <= TickBound) ~> (debounce_timer = None)
  /\ [](Alive /\ Top = "Play" /\ debounce_timer = None =>
          ENABLED (PlayHandleEvent("Space") /\ stack' = Append(stack, "Paused")))

\* the update after a resume took exactly 0.25 s: the timer is still there, at 0
C20_Witness ==
  /\ Alive /\ Top = "Play" /\ ticks > 0
  /\ debounce_timer # None
  /\ debounce_timer[1] = 0
  /\ ticks + ExpiryTicks <= TickBound

\* the shapes of the state stack while the application runs
StackShapes == {<<"Start">>, <<"Play">>, <<"Play", "Paused">>}

\* the step creates a paddle or a ball entity, as PlayState::on_start does
Spawns ==
  \/ \E e \in DOMAIN paddles' : e \notin DOMAIN paddles
  \/ Len(balls') > Len(balls)

\* C21  State-stack shape: before Quit the stack is one of [Start], [Play],
\* [Play, Paused], so PausedState always has PlayState directly beneath it and
\* the depth is at most 2; StartState is never entered again once left; and
\* PlayState's entry action runs at most once: PlayState comes onto the stack
\* only by the Switch from StartState, and only that step spawns entities.
C21_StackShape ==
  /\ [](running => stack \in StackShapes)
  /\ [](running => Len(stack) <= 2)
  /\ [](\A i \in DOMAIN stack : stack[i] = "Paused" => i > 1 /\ stack[i - 1] = "Play")
  /\ [][/\ stack # <<"Start">> => stack' # <<"Start">>
        /\ (stack' # << >> /\ stack'[1] = "Play" /\ (stack = << >> \/ stack[1] # "Play"))
             => stack = <<"Start">>
        /\ Spawns => stack = <<"Start">> /\ stack' = <<"Play">>]_vars

\* PlayState is on top again after PausedState was pushed and popped, with
\* the population of its one entry still whole
C21_Witness ==
  /\ running /\ stack = <<"Play">>
  /\ debounce_timer # None
  /\ Bricks = BrickIds /\ Len(balls) = 1 /\ Players = {PlayerId}

\* the panics of the sprite-sheet lookups in PlayState::on_start
AssetMissing ==
  panicked \in {"Couldn't find the handle for the paddle sprite!",
                "Couldn't find the handle for the ball sprite!"}

\* C22  Play entry never hits a missing asset: whenever the Return of Start
\* switches to Play, every sprite sheet has finished loading, so the lookups
\* of PlayState::on_start succeed and Play is entered with its Player paddle,
\* its ball and its bricks.
C22_EntryAfterLoading ==
  /\ [][(Top = "Start" /\ stack' = <<"Play">>) =>
          /\ is_complete
          /\ panicked' = "none"
          /\ Players' = {PlayerId} /\ Len(balls') = 1 /\ Bricks' = BrickIds]_vars
  /\ [](~AssetMissing)

====
